---- MODULE Spec2Model ----
(***************************************************************************)
(* Model of MaestroServoController.ino: the angle mapper and the serial    *)
(* command dispatcher / demo sequencer driving a Pololu Maestro.           *)
(*                                                                         *)
(* The sketch is single threaded.  The only thing that happens beside it   *)
(* is the arrival of characters in the serial receive buffer, modelled by  *)
(* the action Receive.  The sketch reads the buffer only in loop() and at  *)
(* the top of the pattern loop in runDemo(), so every stretch of code      *)
(* between two such reads is one action.                                   *)
(***************************************************************************)
EXTENDS Integers, Sequences, FiniteSets, TLC

VARIABLES
    pc,       \* position of the sketch: setup, idle (loop), or a place in runDemo
    buf,      \* serial receive buffer (Serial), oldest character first
    cmds,     \* commands written to the Maestro by the latest step, in order
    out,      \* messages printed on Serial by the latest step, in order
    dev,      \* last speed / acceleration / target pushed to each channel
    exitDemo, \* local of runDemo
    iter,     \* outer loop counter i of randomPattern
    randomAngle, \* local of randomPattern: the angle drawn for each channel
    lastInput,\* history: what the latest pass of loop() found in the buffer
    angles,   \* history: the arguments of the calls of mapAngleToTarget in the latest step
    mapIn,    \* arguments of the mapper calls of MapSpec
    mapOut    \* results of the mapper calls of MapSpec

vars == <<pc, buf, cmds, out, dev, exitDemo, iter, randomAngle, lastInput, angles, mapIn, mapOut>>

----------------------------------------------------------------------------
(* Bounds of the model *)

\* capacity of the serial receive buffer, in characters
MaxBuf == 3
\* the mapper is applied to every angle from MIN_ANGLE - Margin to MAX_ANGLE + Margin
Margin == 75

----------------------------------------------------------------------------
(* Program constants *)

ENABLED_CHANNELS == <<0, 1, 2>>
NUM_CHANNELS == Len(ENABLED_CHANNELS)
DEFAULT_SPEED == 0
DEFAULT_ACCELERATION == 127
MID_POSITION == 6000
DEMO_SPEED == 0
DEMO_ACCEL_SMOOTH == 5
DEMO_ACCEL_QUICK == 0
MIN_ANGLE == 70
MAX_ANGLE == 110

\* channels a Maestro can address ("Specify which channels to enable (0-23)")
DeviceChannels == 0..23
\* value of a device register nothing was pushed to yet
Unset == -1

\* characters the operator types; the digits are those of 100, 101, 110, 111
Digits == {"0", "1"}
LineEnds == {"\n", "\r"}
Chars == Digits \cup LineEnds \cup {"d", "x", "-"}

----------------------------------------------------------------------------
(* Angle mapper *)

\* C integer division truncates toward zero
CDiv(a, b) ==
    IF (a >= 0) = (b > 0) \/ a = 0
    THEN (IF a >= 0 THEN a ELSE -a) \div (IF b >= 0 THEN b ELSE -b)
    ELSE -((IF a >= 0 THEN a ELSE -a) \div (IF b >= 0 THEN b ELSE -b))

\* constrain that forgets the lower limit
constrain_noLower(x, lo, hi) == IF x > hi THEN hi ELSE x

\* Arduino constrain(x, lo, hi)
constrain(x, lo, hi) == IF x < lo THEN lo ELSE IF x > hi THEN hi ELSE x

\* map that forgets to add out_min
map_noOffset(x, in_min, in_max, out_min, out_max) ==
    CDiv((x - in_min) * (out_max - out_min), in_max - in_min)

\* map with the output range the wrong way round
map_reversed(x, in_min, in_max, out_min, out_max) ==
    CDiv((x - in_min) * (out_min - out_max), in_max - in_min) + out_max

\* map that divides before it multiplies
map_divideFirst(x, in_min, in_max, out_min, out_max) ==
    CDiv(x - in_min, in_max - in_min) * (out_max - out_min) + out_min

\* Arduino map(x, in_min, in_max, out_min, out_max)
map(x, in_min, in_max, out_min, out_max) ==
    CDiv((x - in_min) * (out_max - out_min), in_max - in_min) + out_min

\* the mapper with the input range of its comment, 60-120 degrees
mapAngleToTarget_staleRange(angle) ==
    map(constrain(angle, MIN_ANGLE, MAX_ANGLE), 60, 120, 4000, 8000) % 65536

\* the result is converted to uint16_t
mapAngleToTarget(angle) ==
    map(constrain(angle, MIN_ANGLE, MAX_ANGLE), MIN_ANGLE, MAX_ANGLE, 4000, 8000) % 65536

----------------------------------------------------------------------------
(* Device commands *)

Cmd(o, c, v) == [op |-> o, ch |-> c, val |-> v]

\* setChannelParams that addresses the channel after the one it was given
setChannelParams_nextChannel(channel, speed, accel) ==
    <<Cmd("setSpeed", channel + 1, speed), Cmd("setAcceleration", channel + 1, accel)>>

setChannelParams(channel, speed, accel) ==
    <<Cmd("setSpeed", channel, speed), Cmd("setAcceleration", channel, accel)>>

\* moveServo that always addresses the first enabled channel
moveServo_firstChannel(channel, angle) ==
    <<Cmd("setTarget", ENABLED_CHANNELS[1], mapAngleToTarget(angle))>>

moveServo(channel, angle) == <<Cmd("setTarget", channel, mapAngleToTarget(angle))>>

\* initializeChannel that moves before it sets the parameters
initializeChannel_moveFirst(channel) ==
    moveServo(channel, 90) \o setChannelParams(channel, DEFAULT_SPEED, DEFAULT_ACCELERATION)

initializeChannel(channel) ==
    setChannelParams(channel, DEFAULT_SPEED, DEFAULT_ACCELERATION) \o moveServo(channel, 90)

\* for (i = 0; i < NUM_CHANNELS; i++) ...: the commands the passes of such a
\* loop write from pass `from` on, body[k] being those of the pass for
\* ENABLED_CHANNELS[k]
RECURSIVE ForChannels(_, _)
ForChannels(body, from) ==
    IF from > NUM_CHANNELS THEN <<>>
    ELSE body[from] \o ForChannels(body, from + 1)

resetAllServos ==
    ForChannels([k \in 1..NUM_CHANNELS |-> initializeChannel(ENABLED_CHANNELS[k])], 1)

\* the registers of the Maestro after it received the commands cs
RECURSIVE Push(_, _)
Push(d, cs) ==
    IF cs = <<>> THEN d
    ELSE LET c == Head(cs)
             f == IF c.op = "setSpeed" THEN "speed"
                  ELSE IF c.op = "setAcceleration" THEN "accel" ELSE "target"
         IN Push([d EXCEPT ![f][c.ch] = c.val], Tail(cs))

\* the sketch writes the commands cs and prints the messages ms
Emit(cs, ms) ==
    \E written \in {cs} :
        /\ cmds' = written
        /\ out' = ms
        /\ dev' = Push(dev, written)

----------------------------------------------------------------------------
(* Serial input *)

DigitVal(c) == CASE c = "0" -> 0 [] c = "1" -> 1

\* Stream::peekNextDigit: discard characters up to the first digit or minus sign
RECURSIVE SkipToDigit(_)
SkipToDigit(s) ==
    IF s = <<>> \/ Head(s) = "-" \/ Head(s) \in Digits THEN s ELSE SkipToDigit(Tail(s))

\* the digit loop of Stream::parseInt
RECURSIVE ReadDigits(_, _)
ReadDigits(s, value) ==
    IF s # <<>> /\ Head(s) \in Digits
    THEN ReadDigits(Tail(s), value * 10 + DigitVal(Head(s)))
    ELSE value

\* Serial.parseInt() on the buffered characters s; no further character
\* arrives before the timeout.  Zero is returned when there is no digit.
\* With at most MaxBuf digits the value stays far inside the range of int.
parseInt(s) ==
    LET t == SkipToDigit(s) IN
    IF t = <<>> THEN 0
    ELSE IF Head(t) = "-" THEN -ReadDigits(Tail(t), 0)
    ELSE ReadDigits(Tail(t), DigitVal(Head(t)))

\* draws of random(MIN_ANGLE, MAX_ANGLE + 2), whose largest value is one
\* degree above the limit
RandomAngles_oneTooMany == {MIN_ANGLE, MAX_ANGLE + 1}

\* random(MIN_ANGLE, MAX_ANGLE + 1) returns an angle from MIN_ANGLE to
\* MAX_ANGLE; the draws of the model are the two ends of that range
RandomAngles == {MIN_ANGLE, MAX_ANGLE}

Msg(t, n) == [text |-> t, arg |-> n]

Prompt == Msg("Enter 'd' for demo mode or angle", 0)

\* what resetAllServos prints through initializeChannel
ResetMsgs == [k \in 1..NUM_CHANNELS |-> Msg("Initializing channel", ENABLED_CHANNELS[k])]

----------------------------------------------------------------------------
(* The sketch *)

Init ==
    /\ pc = "setup"
    /\ buf = <<>>
    /\ cmds = <<>>
    /\ out = <<>>
    /\ dev = [speed  |-> [c \in DeviceChannels |-> Unset],
              accel  |-> [c \in DeviceChannels |-> Unset],
              target |-> [c \in DeviceChannels |-> Unset]]
    /\ exitDemo = FALSE
    /\ iter = 0
    /\ randomAngle = <<>>
    /\ lastInput = "none"
    /\ angles = {}
    /\ mapIn = <<>>
    /\ mapOut = <<>>

\* a character arrives on Serial; a full buffer drops it
Receive ==
    /\ pc # "setup"
    /\ Len(buf) < MaxBuf
    /\ \E c \in Chars : buf' = Append(buf, c)
    /\ UNCHANGED <<pc, cmds, out, dev, exitDemo, iter, randomAngle, lastInput, angles, mapIn, mapOut>>

setup ==
    /\ pc = "setup"
    /\ UNCHANGED <<buf, exitDemo, iter, randomAngle, lastInput, mapIn, mapOut>>
    /\ angles' = {90}
    /\ Emit(resetAllServos,
            <<Msg("Maestro Servo Controller Starting", 0), Msg("Serial1 initialized", 0)>>
                \o ResetMsgs \o <<Prompt>>)
    /\ pc' = "idle"

HasDigit(s) == \E k \in 1..Len(s) : s[k] \in Digits

\* range checks that forget one of the two limits
ValidAngle_noUpper(angle) == angle >= MIN_ANGLE

ValidAngle_noLower(angle) == angle <= MAX_ANGLE

\* the range check of loop()
ValidAngle(angle) == angle >= MIN_ANGLE /\ angle <= MAX_ANGLE

\* first branch of loop() without the Serial.read() that clears the trigger
loopDemo_keepTrigger ==
    /\ buf' = buf
    /\ exitDemo' = FALSE
    /\ pc' = "demoPoll"
    /\ lastInput' = "trigger"
    /\ angles' = {}
    /\ Emit(<<>>, <<Msg("Starting Demo Mode", 0)>>)

\* loop(), first branch: the trigger is read and runDemo() is entered; the
\* call continues in the actions below
loopDemo ==
    /\ buf' = Tail(buf)
    /\ exitDemo' = FALSE
    /\ pc' = "demoPoll"
    /\ lastInput' = "trigger"
    /\ angles' = {}
    /\ Emit(<<>>, <<Msg("Starting Demo Mode", 0)>>)

\* loop(), second branch: an angle is parsed and the buffer cleared
loopAngle ==
    LET angle == parseInt(buf)
        move == [k \in 1..NUM_CHANNELS |-> moveServo(ENABLED_CHANNELS[k], angle)]
    IN /\ buf' = <<>>
       /\ pc' = "idle"
       /\ lastInput' = IF HasDigit(buf) THEN "digits" ELSE "nodigits"
       /\ UNCHANGED exitDemo
       /\ IF ValidAngle(angle)
          THEN /\ angles' = {angle}
               /\ Emit(ForChannels(move, 1), <<Msg("Moving all servos to", angle), Prompt>>)
          ELSE /\ angles' = {}
               /\ Emit(<<>>, <<Msg("Invalid angle", 0), Prompt>>)

\* one pass of loop() with input available; the prompt that ends a pass
\* which ran the demo is printed when runDemo() returns
loop ==
    /\ pc = "idle"
    /\ Len(buf) > 0
    /\ IF Head(buf) = "d" THEN loopDemo ELSE loopAngle
    /\ UNCHANGED <<iter, randomAngle, mapIn, mapOut>>

\* exit check that looks at the first buffered character only
FirstExitChar_firstOnly(s, k) ==
    IF k > Len(s) \/ s[k] \in LineEnds THEN 0 ELSE k

\* exit check that ignores '\n' only, so that '\r' ends the demo
FirstExitChar_newlineOnly(s, k) ==
    IF \A i \in k..Len(s) : s[i] = "\n" THEN 0
    ELSE CHOOSE i \in k..Len(s) : s[i] # "\n" /\ \A j \in k..(i - 1) : s[j] = "\n"

\* index of the first character of s that is no line end, 0 if there is none
RECURSIVE FirstExitChar(_, _)
FirstExitChar(s, k) ==
    IF k > Len(s) THEN 0
    ELSE IF s[k] \notin LineEnds THEN k ELSE FirstExitChar(s, k + 1)

\* pattern loop written as do ... while: the first pass runs the patterns
\* before the input is looked at
runDemoPoll_patternFirst ==
    /\ pc = "demoPoll"
    /\ angles' = {}
    /\ IF cmds = <<>>
       THEN /\ buf' = buf
            /\ exitDemo' = FALSE
            /\ pc' = "randomPattern"
       ELSE LET k == FirstExitChar(buf, 1) IN
            IF k = 0
            THEN /\ buf' = <<>>
                 /\ exitDemo' = FALSE
                 /\ pc' = "randomPattern"
            ELSE /\ buf' = SubSeq(buf, k + 1, Len(buf))
                 /\ exitDemo' = TRUE
                 /\ pc' = "demoExit"
    /\ Emit(<<>>, <<>>)
    /\ UNCHANGED <<iter, randomAngle, lastInput, mapIn, mapOut>>

\* top of the pattern loop of runDemo: the exit check
runDemoPoll ==
    /\ pc = "demoPoll"
    /\ angles' = {}
    /\ LET k == FirstExitChar(buf, 1) IN
       IF k = 0
       THEN /\ buf' = <<>>
            /\ exitDemo' = FALSE
            /\ pc' = "randomPattern"
       ELSE /\ buf' = SubSeq(buf, k + 1, Len(buf))
            /\ exitDemo' = TRUE
            /\ pc' = "demoExit"
    /\ Emit(<<>>, <<>>)
    /\ UNCHANGED <<iter, randomAngle, lastInput, mapIn, mapOut>>

\* one round of the outer loop of randomPattern, up to its delay
randomPattern ==
    /\ pc = "randomPattern"
    /\ UNCHANGED <<buf, exitDemo, lastInput, mapIn, mapOut>>
    /\ randomAngle' \in [1..NUM_CHANNELS -> RandomAngles]
    /\ angles' = {randomAngle'[j] : j \in 1..NUM_CHANNELS}
    /\ Emit(ForChannels([j \in 1..NUM_CHANNELS |->
                setChannelParams(ENABLED_CHANNELS[j], DEMO_SPEED, DEMO_ACCEL_QUICK)
                    \o moveServo(ENABLED_CHANNELS[j], randomAngle'[j])], 1),
            IF iter = 0 THEN <<Msg("Random movement pattern", 0)>> ELSE <<>>)
    /\ IF iter + 1 < 3
       THEN iter' = iter + 1 /\ pc' = "randomPattern"
       ELSE iter' = 0 /\ pc' = "synchronizedSweep"

\* synchronizedSweep that takes each channel through max, min and center
\* before it turns to the next channel
synchronizedSweep_perChannel ==
    /\ pc = "synchronizedSweep"
    /\ UNCHANGED <<buf, exitDemo, iter, lastInput, mapIn, mapOut>>
    /\ randomAngle' = <<>>
    /\ angles' = {MAX_ANGLE, MIN_ANGLE, 90}
    /\ Emit(ForChannels([k \in 1..NUM_CHANNELS |->
                setChannelParams(ENABLED_CHANNELS[k], DEMO_SPEED, DEMO_ACCEL_SMOOTH)
                    \o moveServo(ENABLED_CHANNELS[k], MAX_ANGLE)
                    \o moveServo(ENABLED_CHANNELS[k], MIN_ANGLE)
                    \o moveServo(ENABLED_CHANNELS[k], 90)], 1),
            <<Msg("Synchronized sweep pattern", 0)>>)
    /\ pc' = "waveSweep"

\* synchronizedSweep that looks at the input first and gives up if a
\* character other than a line end is waiting
synchronizedSweep_preemptible ==
    /\ pc = "synchronizedSweep"
    /\ UNCHANGED <<buf, iter, lastInput, mapIn, mapOut>>
    /\ randomAngle' = <<>>
    /\ IF \E k \in 1..Len(buf) : buf[k] \notin LineEnds
       THEN exitDemo' = TRUE /\ pc' = "demoExit" /\ angles' = {} /\ Emit(<<>>, <<>>)
       ELSE /\ exitDemo' = exitDemo
            /\ angles' = {MAX_ANGLE, MIN_ANGLE, 90}
            /\ pc' = "waveSweep"
            /\ Emit(ForChannels([k \in 1..NUM_CHANNELS |->
                        setChannelParams(ENABLED_CHANNELS[k], DEMO_SPEED, DEMO_ACCEL_SMOOTH)
                            \o moveServo(ENABLED_CHANNELS[k], MAX_ANGLE)], 1)
                    \o ForChannels([k \in 1..NUM_CHANNELS |->
                            moveServo(ENABLED_CHANNELS[k], MIN_ANGLE)], 1)
                    \o ForChannels([k \in 1..NUM_CHANNELS |->
                            moveServo(ENABLED_CHANNELS[k], 90)], 1),
                    <<Msg("Synchronized sweep pattern", 0)>>)

synchronizedSweep ==
    /\ pc = "synchronizedSweep"
    /\ UNCHANGED <<buf, exitDemo, iter, lastInput, mapIn, mapOut>>
    /\ randomAngle' = <<>>
    /\ angles' = {MAX_ANGLE, MIN_ANGLE, 90}
    /\ LET toMax == [k \in 1..NUM_CHANNELS |->
               setChannelParams(ENABLED_CHANNELS[k], DEMO_SPEED, DEMO_ACCEL_SMOOTH)
                   \o moveServo(ENABLED_CHANNELS[k], MAX_ANGLE)]
           toMin == [k \in 1..NUM_CHANNELS |-> moveServo(ENABLED_CHANNELS[k], MIN_ANGLE)]
           toCenter == [k \in 1..NUM_CHANNELS |-> moveServo(ENABLED_CHANNELS[k], 90)]
       IN Emit(ForChannels(toMax, 1) \o ForChannels(toMin, 1) \o ForChannels(toCenter, 1),
               <<Msg("Synchronized sweep pattern", 0)>>)
    /\ pc' = "waveSweep"

\* waveSweep that indexes positions one place too far
waveSweep_shifted ==
    /\ pc = "waveSweep"
    /\ angles' = {MIN_ANGLE, 90, MAX_ANGLE}
    /\ UNCHANGED <<buf, exitDemo, iter, randomAngle, lastInput, mapIn, mapOut>>
    /\ LET positions == <<MIN_ANGLE, 90, MAX_ANGLE>>
           wave == [k \in 1..NUM_CHANNELS |->
               setChannelParams(ENABLED_CHANNELS[k], DEMO_SPEED, DEMO_ACCEL_SMOOTH)
                   \o moveServo(ENABLED_CHANNELS[k], positions[(k % 3) + 1])]
           toCenter == [k \in 1..NUM_CHANNELS |-> moveServo(ENABLED_CHANNELS[k], 90)]
       IN Emit(ForChannels(wave, 1) \o ForChannels(toCenter, 1),
               <<Msg("Wave sweep pattern", 0)>>)
    /\ pc' = "demoPoll"

\* waveSweep, followed by the delay that ends the pass of the pattern loop
waveSweep ==
    /\ pc = "waveSweep"
    /\ angles' = {<<MIN_ANGLE, 90, MAX_ANGLE>>[(i % 3) + 1] : i \in 0..(NUM_CHANNELS - 1)} \cup {90}
    /\ UNCHANGED <<buf, exitDemo, iter, randomAngle, lastInput, mapIn, mapOut>>
    /\ LET positions == <<MIN_ANGLE, 90, MAX_ANGLE>>
           wave == [k \in 1..NUM_CHANNELS |->
               setChannelParams(ENABLED_CHANNELS[k], DEMO_SPEED, DEMO_ACCEL_SMOOTH)
                   \o moveServo(ENABLED_CHANNELS[k], positions[((k - 1) % 3) + 1])]
           toCenter == [k \in 1..NUM_CHANNELS |-> moveServo(ENABLED_CHANNELS[k], 90)]
       IN Emit(ForChannels(wave, 1) \o ForChannels(toCenter, 1),
               <<Msg("Wave sweep pattern", 0)>>)
    /\ pc' = "demoPoll"

\* end of runDemo without the call of resetAllServos
runDemoExit_noReset ==
    /\ pc = "demoExit"
    /\ angles' = {}
    /\ buf' = <<>>
    /\ Emit(<<>>, <<Msg("Exiting Demo Mode", 0), Prompt>>)
    /\ exitDemo' = FALSE
    /\ pc' = "idle"
    /\ UNCHANGED <<iter, randomAngle, lastInput, mapIn, mapOut>>

\* end of runDemo without the loop that clears the input buffer
runDemoExit_noDrain ==
    /\ pc = "demoExit"
    /\ angles' = {90}
    /\ buf' = buf
    /\ Emit(resetAllServos, <<Msg("Exiting Demo Mode", 0)>> \o ResetMsgs \o <<Prompt>>)
    /\ exitDemo' = FALSE
    /\ pc' = "idle"
    /\ UNCHANGED <<iter, randomAngle, lastInput, mapIn, mapOut>>

\* end of runDemo after the exit was seen, and the return into loop()
runDemoExit ==
    /\ pc = "demoExit"
    /\ angles' = {90}
    /\ buf' = <<>>
    /\ Emit(resetAllServos, <<Msg("Exiting Demo Mode", 0)>> \o ResetMsgs \o <<Prompt>>)
    /\ exitDemo' = FALSE
    /\ pc' = "idle"
    /\ UNCHANGED <<iter, randomAngle, lastInput, mapIn, mapOut>>

Sketch ==
    \/ setup
    \/ loop
    \/ runDemoPoll
    \/ randomPattern
    \/ synchronizedSweep
    \/ waveSweep
    \/ runDemoExit

Next == Receive \/ Sketch

Spec == Init /\ [][Next]_vars

\* the sketch never stops running: loop() is called again and again
FairSpec == Spec /\ WF_vars(Sketch)

----------------------------------------------------------------------------
(* The mapper on its own: it is applied to every pair of angles in range *)

AngleInputs == (MIN_ANGLE - Margin)..(MAX_ANGLE + Margin)

MapInit ==
    /\ pc = "setup"
    /\ buf = <<>>
    /\ cmds = <<>>
    /\ out = <<>>
    /\ dev = [speed  |-> [c \in DeviceChannels |-> Unset],
              accel  |-> [c \in DeviceChannels |-> Unset],
              target |-> [c \in DeviceChannels |-> Unset]]
    /\ exitDemo = FALSE
    /\ iter = 0
    /\ randomAngle = <<>>
    /\ lastInput = "none"
    /\ angles = {}
    /\ mapIn \in AngleInputs \X AngleInputs
    /\ mapOut = <<>>

MapCall ==
    /\ mapOut = <<>>
    /\ mapOut' = <<mapAngleToTarget(mapIn[1]), mapAngleToTarget(mapIn[2])>>
    /\ UNCHANGED <<pc, buf, cmds, out, dev, exitDemo, iter, randomAngle, lastInput, angles, mapIn>>

MapSpec == MapInit /\ [][MapCall]_vars

----------------------------------------------------------------------------
(* Properties *)

IsTarget(c) == c.op = "setTarget"

Enabled == {ENABLED_CHANNELS[k] : k \in 1..NUM_CHANNELS}

DemoPcs == {"demoPoll", "randomPattern", "synchronizedSweep", "waveSweep", "demoExit"}

HasMsg(ms, t) == \E k \in 1..Len(ms) : ms[k].text = t

\* a step of loop(): in idle with input buffered, every step that is not the
\* arrival of one more character is a pass of loop()
LoopStep == pc = "idle" /\ Len(buf) > 0 /\ Len(buf') <= Len(buf)

\* one set-target per enabled channel, in list order, all with value v
TargetAll(v) == [k \in 1..NUM_CHANNELS |-> Cmd("setTarget", ENABLED_CHANNELS[k], v)]

\* C1: every set-target command written to the device, by setup, by an angle
\* command or by any demo pattern, carries a value from 4000 to 8000.
C1_PulseInRange ==
    \A k \in 1..Len(cmds) : IsTarget(cmds[k]) => (cmds[k].val >= 4000 /\ cmds[k].val <= 8000)

C1_Witness ==
    /\ pc = "synchronizedSweep"
    /\ \E k \in 1..Len(cmds) : IsTarget(cmds[k]) /\ cmds[k].val = 8000
    /\ \E k \in 1..Len(cmds) : IsTarget(cmds[k]) /\ cmds[k].val = 4000

\* C2: a pass of loop() in idle whose input is no trigger and parses as an
\* angle from 70 to 110 writes exactly one set-target per enabled channel, in
\* list order, with the mapped value, writes nothing else, and stays idle.
C2_AngleMove ==
    [][(LoopStep /\ Head(buf) # "d" /\ parseInt(buf) >= 70 /\ parseInt(buf) <= 110)
         => (cmds' = TargetAll(mapAngleToTarget(parseInt(buf))) /\ pc' = "idle")]_vars

C2_Witness ==
    /\ pc = "idle"
    /\ out[1] = Msg("Moving all servos to", 110)
    /\ cmds = TargetAll(8000)

\* C3: a pass of loop() in idle whose input holds an integer outside 70..110
\* prints the invalid-angle diagnostic, writes no device command at all and
\* stays idle with the input discarded.
C3_RejectOutOfRange ==
    [][(LoopStep /\ Head(buf) # "d" /\ HasDigit(buf)
            /\ (parseInt(buf) < 70 \/ parseInt(buf) > 110))
         => /\ HasMsg(out', "Invalid angle")
            /\ cmds' = <<>>
            /\ dev' = dev
            /\ pc' = "idle"
            /\ buf' = <<>>]_vars

C3_Witness ==
    /\ pc = "idle"
    /\ lastInput = "digits"
    /\ HasMsg(out, "Invalid angle")
    /\ cmds = <<>>

\* C4: in demo mode a buffered character other than a line end leads to idle
\* with every enabled channel's last target at 6000, and every return from
\* demo mode to idle leaves the targets there.
Neutral == \A c \in Enabled : dev.target[c] = 6000

HasExitChar(s) == \E k \in 1..Len(s) : s[k] \notin LineEnds

C4_DemoExit ==
    /\ (pc \in DemoPcs /\ HasExitChar(buf)) ~> (pc = "idle" /\ Neutral)
    /\ [][(pc \in DemoPcs /\ pc' = "idle") => Neutral']_vars

C4_Witness ==
    /\ pc = "idle"
    /\ out[1] = Msg("Exiting Demo Mode", 0)
    /\ Neutral
    /\ \E c \in Enabled : dev.accel[c] = DEFAULT_ACCELERATION

\* C5 as stated: input without trigger and without digits is ignored
\* silently, with no device command and no diagnostic.
C5_SilentlyIgnored ==
    [][(LoopStep /\ Head(buf) # "d" /\ ~HasDigit(buf))
         => (cmds' = <<>> /\ ~HasMsg(out', "Invalid angle"))]_vars

\* C5 amended: input without trigger and without digits causes no device
\* command, but it is answered with the invalid-angle diagnostic, like an
\* out-of-range number, and the dispatcher stays idle.
C5_RejectedWithDiagnostic ==
    [][(LoopStep /\ Head(buf) # "d" /\ ~HasDigit(buf))
         => /\ cmds' = <<>>
            /\ dev' = dev
            /\ HasMsg(out', "Invalid angle")
            /\ pc' = "idle"]_vars

C5_Witness ==
    /\ pc = "idle"
    /\ lastInput = "nodigits"
    /\ HasMsg(out, "Invalid angle")
    /\ cmds = <<>>
    /\ buf = <<>>

C8_Monotonic ==
    (mapOut # <<>> /\ 70 <= mapIn[1] /\ mapIn[1] <= mapIn[2] /\ mapIn[2] <= 110)
        => mapOut[1] <= mapOut[2]

C8_Witness == mapOut # <<>> /\ mapIn = <<89, 91>> /\ mapOut[1] < mapOut[2]

\* the set-target at position k of cs directly follows a set-speed and a
\* set-acceleration for the same channel
Paired(cs, k) ==
    /\ k >= 3
    /\ cs[k - 2].op = "setSpeed" /\ cs[k - 2].ch = cs[k].ch
    /\ cs[k - 1].op = "setAcceleration" /\ cs[k - 1].ch = cs[k].ch

AllPaired(cs) == \A k \in 1..Len(cs) : IsTarget(cs[k]) => Paired(cs, k)

\* C9 as stated: every set-target is preceded, in the same move, by a
\* set-speed and a set-acceleration for its channel.
C9_ParamsBeforeEveryMove == AllPaired(cmds)

\* C9 amended: every set-target for a channel comes after a set-speed and a
\* set-acceleration for that channel, but only the moves of initializeChannel
\* (setup, demo exit), of randomPattern and of the first phase of
\* synchronizedSweep and waveSweep set them in the same move; direct angle
\* commands and the later sweep phases write bare set-targets.
C9_ParamsBeforeFirstMove ==
    /\ [][\A k \in 1..Len(cmds') : IsTarget(cmds'[k]) =>
            \/ dev.speed[cmds'[k].ch] # Unset /\ dev.accel[cmds'[k].ch] # Unset
            \/ /\ \E i \in 1..(k - 1) :
                      cmds'[i].op = "setSpeed" /\ cmds'[i].ch = cmds'[k].ch
               /\ \E j \in 1..(k - 1) :
                      cmds'[j].op = "setAcceleration" /\ cmds'[j].ch = cmds'[k].ch]_vars
    /\ [](/\ (pc = "idle" /\ lastInput \in {"none", "trigger"}) =>
                 (AllPaired(cmds) /\ Len(cmds) = 3 * NUM_CHANNELS)
          /\ ((pc = "randomPattern" /\ iter > 0) \/ pc = "synchronizedSweep") =>
                 (AllPaired(cmds) /\ Len(cmds) = 3 * NUM_CHANNELS)
          /\ (pc = "waveSweep" \/ (pc = "demoPoll" /\ cmds # <<>>)) =>
                 \A k \in 1..Len(cmds) :
                     IF k <= 3 * NUM_CHANNELS
                     THEN IsTarget(cmds[k]) => Paired(cmds, k)
                     ELSE IsTarget(cmds[k]) /\ ~Paired(cmds, k)
          /\ (pc = "idle" /\ lastInput \in {"digits", "nodigits"}) =>
                 \A k \in 1..Len(cmds) : IsTarget(cmds[k]) /\ ~Paired(cmds, k))

C9_Witness ==
    /\ pc = "idle"
    /\ cmds = TargetAll(7000)
    /\ \A c \in Enabled : dev.speed[c] = DEFAULT_SPEED /\ dev.accel[c] = DEFAULT_ACCELERATION

\* C10: demo mode is entered when and only when loop() runs in idle with the
\* trigger 'd' as the first buffered character; the step takes exactly that
\* character out of the buffer and writes no device command.
C10_DemoEntry ==
    [][/\ (LoopStep /\ Head(buf) = "d") =>
             (pc' = "demoPoll" /\ buf' = Tail(buf) /\ cmds' = <<>> /\ dev' = dev)
       /\ (pc \notin DemoPcs /\ pc' \in DemoPcs) =>
             (pc = "idle" /\ Len(buf) > 0 /\ Head(buf) = "d")
       /\ (LoopStep /\ Head(buf) # "d") => pc' = "idle"]_vars

C10_Witness ==
    /\ pc = "demoPoll"
    /\ lastInput = "trigger"
    /\ out = <<Msg("Starting Demo Mode", 0)>>
    /\ cmds = <<>>
    /\ buf = <<"1", "0">>

\* C11: line ends alone never end the demo: as long as no character other
\* than '\n' and '\r' is buffered while the demo runs, the exit is never
\* taken, the poll that finds only line ends starts the next cycle, and the
\* random pattern, the synchronized sweep and the wave sweep each run again
\* and again.
C11_LineEndsKeepDemo ==
    /\ [](pc \in DemoPcs => ~HasExitChar(buf))
          => [](pc \in DemoPcs =>
                  /\ pc # "demoExit"
                  /\ <>(pc = "randomPattern")
                  /\ <>(pc = "synchronizedSweep")
                  /\ <>(pc = "waveSweep"))
    /\ [][(pc = "demoPoll" /\ ~HasExitChar(buf) /\ pc' # pc)
            => (pc' = "randomPattern" /\ exitDemo' = FALSE /\ buf' = <<>>)]_vars

\* a second cycle has begun (the acceleration of the wave sweep is still in
\* effect) and line ends are buffered
C11_Witness ==
    /\ pc = "randomPattern"
    /\ iter = 0
    /\ \A c \in Enabled : dev.accel[c] = DEMO_ACCEL_SMOOTH
    /\ buf = <<"\n", "\r">>

\* C12: on demo exit the characters buffered when the exit is detected are
\* discarded: the poll that detects the exit writes nothing to the device and
\* interprets nothing, nothing is read from the buffer between the detection
\* and the end of runDemo, and the step that resets the channels and returns
\* to idle leaves the buffer empty, so that loop() never sees them.
C12_DrainOnExit ==
    [][/\ (pc = "demoPoll" /\ pc' = "demoExit") =>
             (exitDemo' /\ cmds' = <<>> /\ dev' = dev /\ lastInput' = lastInput)
       /\ (pc = "demoExit" /\ pc' = pc) =>
             (\E c \in Chars : buf' = Append(buf, c))
       /\ (pc = "demoExit" /\ pc' # pc) =>
             /\ pc' = "idle"
             /\ buf' = <<>>
             /\ cmds' = resetAllServos
             /\ \A c \in Enabled : dev'.target[c] = MID_POSITION
             /\ lastInput' = lastInput]_vars

\* the exit was detected with a trigger and a digit still buffered
C12_Witness ==
    /\ pc = "demoExit"
    /\ exitDemo
    /\ cmds = <<>>
    /\ buf = <<"d", "1">>

PatternPcs == {"randomPattern", "synchronizedSweep", "waveSweep"}

\* C13: the exit is checked at the top of the pattern loop only.  Once a
\* cycle has started, three rounds of the random pattern, the synchronized
\* sweep and the wave sweep follow one another in full whatever is buffered,
\* none of them reads the buffer or touches exitDemo, the exit is taken from
\* the poll and from nowhere else, and a character other than a line end
\* that is buffered during a cycle ends the demo at the next poll.
C13_ExitAtLoopTopOnly ==
    /\ [][/\ (pc = "randomPattern" /\ pc' # pc) =>
                (iter = 2 /\ pc' = "synchronizedSweep")
          /\ (pc = "randomPattern" /\ cmds' # cmds) => Len(cmds') = 3 * NUM_CHANNELS
          /\ (pc = "synchronizedSweep" /\ pc' # pc) =>
                (pc' = "waveSweep" /\ Len(cmds') = 5 * NUM_CHANNELS)
          /\ (pc = "waveSweep" /\ pc' # pc) =>
                (pc' = "demoPoll" /\ Len(cmds') = 4 * NUM_CHANNELS)
          /\ (pc \in PatternPcs /\ (pc' # pc \/ iter' # iter)) =>
                (buf' = buf /\ exitDemo' = exitDemo /\ ~exitDemo)
          /\ (pc' = "demoExit" /\ pc # "demoExit") => pc = "demoPoll"
          /\ (pc = "demoPoll" /\ HasExitChar(buf) /\ pc' # pc) => pc' = "demoExit"]_vars
    /\ (pc \in PatternPcs /\ HasExitChar(buf)) ~> (pc = "demoPoll" /\ HasExitChar(buf))
    /\ (pc \in PatternPcs /\ HasExitChar(buf)) ~> (pc = "demoExit")

\* the synchronized sweep has run in full and the wave sweep is about to run
\* although an exit character is buffered
C13_Witness ==
    /\ pc = "waveSweep"
    /\ ~exitDemo
    /\ Len(cmds) = 5 * NUM_CHANNELS
    /\ buf = <<"x", "\n", "d">>

\* the set-target commands among cs, in order
Targets(cs) == SelectSeq(cs, IsTarget)

\* C14: the synchronized sweep writes its set-targets in three phases, max,
\* min, center: 8000 to every enabled channel in list order, then 4000 to
\* every enabled channel, then 6000 to every enabled channel, and no other
\* set-target in between.
C14_SweepPhases ==
    pc = "waveSweep" =>
        Targets(cmds) = TargetAll(8000) \o TargetAll(4000) \o TargetAll(6000)

C14_Witness ==
    /\ pc = "waveSweep"
    /\ cmds[3] = Cmd("setTarget", ENABLED_CHANNELS[1], 8000)
    /\ cmds[3 * NUM_CHANNELS + 1] = Cmd("setTarget", ENABLED_CHANNELS[1], 4000)
    /\ cmds[Len(cmds)] = Cmd("setTarget", ENABLED_CHANNELS[NUM_CHANNELS], 6000)

\* C15: the wave sweep sends the channel at list index i to the preset
\* (MIN_ANGLE, 90, MAX_ANGLE)[i mod 3], that is 4000, 6000 and 8000 for the
\* three enabled channels in order, and then sends every enabled channel to
\* 6000.
C15_WavePresets ==
    (pc = "demoPoll" /\ cmds # <<>>) =>
        /\ Targets(cmds) =
               [k \in 1..NUM_CHANNELS |->
                   Cmd("setTarget", ENABLED_CHANNELS[k], <<4000, 6000, 8000>>[((k - 1) % 3) + 1])]
               \o TargetAll(6000)
        /\ Neutral

C15_Witness ==
    /\ pc = "demoPoll"
    /\ Len(cmds) = 4 * NUM_CHANNELS
    /\ cmds[3] = Cmd("setTarget", 0, 4000)
    /\ cmds[6] = Cmd("setTarget", 1, 6000)
    /\ cmds[9] = Cmd("setTarget", 2, 8000)
    /\ dev.target[2] = 6000

DefaultParams ==
    \A c \in Enabled :
        dev.speed[c] = DEFAULT_SPEED /\ dev.accel[c] = DEFAULT_ACCELERATION

\* C17: whenever the sketch is idle, the speed and the acceleration last
\* pushed to every enabled channel are the defaults, 0 and 127: the demo
\* accelerations 5 and 0 are gone once the demo has been left, a pass of
\* loop() that stays idle pushes no parameter, and so every direct angle
\* move runs with the defaults.
C17_DefaultsWhenIdle ==
    /\ [](pc = "idle" => DefaultParams)
    /\ [][(pc = "idle" /\ pc' = "idle") =>
             (dev'.speed = dev.speed /\ dev'.accel = dev.accel)]_vars

\* back in idle from the demo, with an angle buffered for the next pass
C17_Witness ==
    /\ pc = "idle"
    /\ HasMsg(out, "Exiting Demo Mode")
    /\ DefaultParams
    /\ buf = <<"1", "1", "0">>

\* the first poll of a run of the demo: nothing was written since the trigger
FirstPoll == pc = "demoPoll" /\ cmds = <<>>

\* C18: when a character other than a line end is buffered right behind the
\* trigger, the demo ends at its first poll without running a pattern: the
\* entry and the poll write no device command, so the parameters are still
\* the defaults of idle, the poll goes straight to the exit, and the exit
\* discards the rest of the input, interprets none of it and writes only the
\* reset to neutral.
C18_ExitAtFirstPoll ==
    /\ [][/\ (LoopStep /\ Head(buf) = "d" /\ HasExitChar(Tail(buf))) =>
                (FirstPoll' /\ HasExitChar(buf') /\ dev' = dev)
          /\ (FirstPoll /\ HasExitChar(buf) /\ pc' # pc) =>
                /\ pc' = "demoExit"
                /\ cmds' = <<>>
                /\ dev' = dev
                /\ lastInput' = lastInput
          /\ (pc = "demoExit" /\ pc' # pc) =>
                /\ pc' = "idle"
                /\ cmds' = resetAllServos
                /\ Targets(cmds') = TargetAll(MID_POSITION)
                /\ buf' = <<>>
                /\ lastInput' = lastInput]_vars
    /\ [](FirstPoll => DefaultParams)

\* the exit was taken with the defaults still in effect, so no pattern ran,
\* and a digit of the input is still buffered
C18_Witness ==
    /\ pc = "demoExit"
    /\ DefaultParams
    /\ lastInput = "trigger"
    /\ buf = <<"0">>

\* C19: every command written to the device, set-speed, set-acceleration or
\* set-target, addresses one of the enabled channels 0, 1, 2, and the
\* registers of every other channel of the device are never written.
C19_EnabledChannelsOnly ==
    /\ Enabled = {0, 1, 2}
    /\ \A k \in 1..Len(cmds) :
           /\ cmds[k].op \in {"setSpeed", "setAcceleration", "setTarget"}
           /\ cmds[k].ch \in Enabled
    /\ \A c \in DeviceChannels \ Enabled :
           dev.speed[c] = Unset /\ dev.accel[c] = Unset /\ dev.target[c] = Unset

\* the wave sweep has written all three kinds of command to all three channels
C19_Witness ==
    /\ pc = "demoPoll"
    /\ \A c \in Enabled : \A o \in {"setSpeed", "setAcceleration", "setTarget"} :
           \E k \in 1..Len(cmds) : cmds[k].op = o /\ cmds[k].ch = c

\* C20: every call of mapAngleToTarget, from the dispatcher, from the random
\* pattern and with the constants 70, 90 and 110, passes an angle that is
\* already inside 70..110, so constrain returns its argument unchanged; the
\* set-targets written by a step are the images of exactly these angles.
C20_ArgsInRange ==
    /\ \A a \in angles :
           /\ a >= MIN_ANGLE /\ a <= MAX_ANGLE
           /\ constrain(a, MIN_ANGLE, MAX_ANGLE) = a
    /\ {cmds[k].val : k \in {i \in 1..Len(cmds) : IsTarget(cmds[i])}}
          = {mapAngleToTarget(a) : a \in angles}

\* a round of the random pattern drew both ends of the range
C20_Witness ==
    /\ pc = "randomPattern"
    /\ iter = 2
    /\ angles = {MIN_ANGLE, MAX_ANGLE}
    /\ \E k \in 1..Len(cmds) : cmds[k] = Cmd("setTarget", 1, 8000)

====
